---- MODULE Spec2Model ----
(***************************************************************************)
(* Weekly menu generator (weekly_menu_generator.py): the catalog loader,   *)
(* the category filter, the day-by-day planner and the Streamlit page      *)
(* script that stores and displays the plan.                               *)
(***************************************************************************)
EXTENDS Integers, Sequences, FiniteSets, TLC

VARIABLES
    file,             \* dishes.json as it is on disk when load_dishes opens it
    no_lamb,          \* argument of the running generate_weekly_menu call
    no_spicy,         \* argument of the running generate_weekly_menu call
    pc,               \* position of the control flow
    dishes,           \* generate_weekly_menu: what load_dishes returned
    filtered,         \* the three *_filtered lists, by category
    used_dishes,      \* the single set of names already used
    yesterday_dishes, \* category -> name chosen the day before, or None
    available,        \* the three *_available lists at the moment of the draw
    weekly_menu,      \* the list of day entries built so far
    outcome,          \* how the call ended: "pending", "none", "menu", or an exception
    was_reset,        \* history: category -> its reset branch ran on the last day
    since_reset,      \* history: category -> names chosen for it since its last reset
    covered,          \* history: category -> names chosen for it before the last day's reset
    session_state,    \* st.session_state, a dictionary that survives reruns
    displayed,        \* what the last finished rerun of the page showed
    last_attempt,     \* history: how the most recent generation attempt ended
    last_plan,        \* history: the plan of the most recent successful attempt
    reruns,           \* number of page reruns so far
    given,            \* filter_dishes on its own: the list as it was before the call
    arg,              \* the list object that was passed in, after the call
    once,             \* filter_dishes(arg, f1, f2)
    twice             \* filter_dishes(once, f1, f2)

gen_vars == <<no_lamb, no_spicy, dishes, filtered, used_dishes, yesterday_dishes,
              available, weekly_menu, outcome, was_reset, since_reset, covered>>
page_vars == <<session_state, displayed, last_attempt, last_plan, reruns>>
filter_vars == <<given, arg, once, twice>>
vars == <<file, pc, gen_vars, page_vars, filter_vars>>

-----------------------------------------------------------------------------
(* Bounds of the model *)

\* number of dishes of a catalog, the three categories together
MaxDishes == 7
\* longest dish list handed to filter_dishes on its own
MaxLen == 3
\* number of page reruns followed in one browser session
MaxReruns == 3

-----------------------------------------------------------------------------
(* Values *)

\* Python's None; no dish is named like this
None == "None"

Categories == {"main_meat", "semi_meat", "veggie"}

\* a loop over four days only
days_short == <<"Monday", "Tuesday", "Wednesday", "Thursday">>

\* the weekday labels of the loop (zhou yi .. zhou wu), written in English
days == <<"Monday", "Tuesday", "Wednesday", "Thursday", "Friday">>

NameUniverse == <<"A", "B", "C", "D", "E", "F", "G">>

\* d.get(key, default)
Get(d, key, default) == IF key \in DOMAIN d THEN d[key] ELSE default

\* bool(x) of a name or None, as the `if yesterday_dishes[...] and ...` test takes it
Truthy(x) == x # None /\ x # ""

Range(s) == {s[i] : i \in 1..Len(s)}

NamesOf(s) == {s[i].name : i \in 1..Len(s)}

\* The dish records of the catalogs: the empty name carries no tag at all,
\* "A" is a lamb dish without a has_spicy tag, "B" is a spicy dish, the
\* others carry both tags set to false.
DishOf(n) ==
    IF n = "" THEN [name |-> n]
    ELSE IF n = "A" THEN [name |-> n, has_lamb |-> TRUE]
    ELSE IF n = "B" THEN [name |-> n, has_lamb |-> FALSE, has_spicy |-> TRUE]
    ELSE [name |-> n, has_lamb |-> FALSE, has_spicy |-> FALSE]

\* the empty dictionary {}
EmptyDict == [k \in {} |-> <<>>]

\* d[key] = value on a dictionary
Put(d, key, value) == (key :> value) @@ d

\* what load_dishes returns when it absorbs a failure
EmptyCatalog == [main_meat |-> <<>>, semi_meat |-> <<>>, veggie |-> <<>>]

-----------------------------------------------------------------------------
(* load_dishes *)

\* How opening and parsing dishes.json can go.  "ok": the text is well-formed
\* JSON; "missing": no such file; "malformed": not JSON; "unreadable": the
\* file exists but may not be read; "undecodable": bytes that are not UTF-8.
FileStates == {"ok", "missing", "malformed", "unreadable", "undecodable"}

\* The exception open()/json.load() raise in each state, None when they succeed
ReadError(state) ==
    CASE state = "ok" -> None
      [] state = "missing" -> "FileNotFoundError"
      [] state = "malformed" -> "JSONDecodeError"
      [] state = "unreadable" -> "PermissionError"
      [] state = "undecodable" -> "UnicodeDecodeError"

\* load_dishes(): exc is the exception that leaves the function (None when it
\* returns), value the dictionary returned.  Only FileNotFoundError and
\* JSONDecodeError are caught; a parsed document is returned as it is.
load_dishes(f) ==
    LET err == ReadError(f.state) IN
    IF err = None THEN [exc |-> None, value |-> f.json]
    ELSE IF err \in {"FileNotFoundError", "JSONDecodeError"}
         THEN [exc |-> None, value |-> EmptyCatalog]
         ELSE [exc |-> err, value |-> EmptyCatalog]

-----------------------------------------------------------------------------
(* filter_dishes *)

RemoveAt(s, i) == SubSeq(s, 1, i - 1) \o SubSeq(s, i + 1, Len(s))

FirstIndex(s, d) == CHOOSE i \in 1..Len(s) : s[i] = d /\ \A j \in 1..(i - 1) : s[j] # d

\* A loop that removes from the list it walks: after a removal the walk skips
\* the element that slid into the freed place.
RECURSIVE RemoveWhileIterating(_, _, _)
RemoveWhileIterating(s, i, key) ==
    IF i > Len(s) THEN s
    ELSE IF Get(s[i], key, FALSE)
         THEN RemoveWhileIterating(RemoveAt(s, FirstIndex(s, s[i])), i + 1, key)
         ELSE RemoveWhileIterating(s, i + 1, key)

\* filter_dishes written without the copy and with in-place removal
filter_dishes_in_place(ds, nl, ns) ==
    LET f1 == IF nl THEN RemoveWhileIterating(ds, 1, "has_lamb") ELSE ds
        f2 == IF ns THEN RemoveWhileIterating(f1, 1, "has_spicy") ELSE f1
    IN [dishes |-> f2, filtered |-> f2]

\* filter_dishes that forgets the spicy filter
filter_dishes_lamb_only(ds, nl, ns) ==
    [dishes |-> ds,
     filtered |-> IF nl THEN SelectSeq(ds, LAMBDA d : ~Get(d, "has_lamb", FALSE)) ELSE ds]

\* filter_dishes(dishes, no_lamb, no_spicy): `filtered` is the list returned,
\* `dishes` the caller's list object after the call (the function works on a
\* copy and rebinds its local name, so the caller's list is as it was).
filter_dishes(ds, nl, ns) ==
    LET f0 == ds
        f1 == IF nl THEN SelectSeq(f0, LAMBDA d : ~Get(d, "has_lamb", FALSE)) ELSE f0
        f2 == IF ns THEN SelectSeq(f1, LAMBDA d : ~Get(d, "has_spicy", FALSE)) ELSE f1
    IN [dishes |-> ds, filtered |-> f2]

-----------------------------------------------------------------------------
(* generate_weekly_menu *)

NoneYet == [c \in Categories |-> None]
NoLists == [c \in Categories |-> <<>>]
NoNames == [c \in Categories |-> {}]
NoResets == [c \in Categories |-> FALSE]

\* the feasibility check that lets a call go on although one list is empty
Infeasible_all(f) ==
    Len(f["main_meat"]) = 0 /\ Len(f["semi_meat"]) = 0 /\ Len(f["veggie"]) = 0

\* the feasibility check: some filtered list is empty
Infeasible(f) ==
    Len(f["main_meat"]) = 0 \/ Len(f["semi_meat"]) = 0 \/ Len(f["veggie"]) = 0

\* [d for d in pool if d["name"] not in used_dishes]
Unused(pool, used) == SelectSeq(pool, LAMBDA d : d.name \notin used)

\* the refill that drops yesterday's dish without looking at the length
ResetAvailable_always(pool, yesterday) ==
    IF Truthy(yesterday) THEN SelectSeq(pool, LAMBDA d : d.name # yesterday) ELSE pool

\* the reset branch of one category: the available list is the whole filtered
\* list, without yesterday's dish when there is one and the list is longer than 1
ResetAvailable(pool, yesterday) ==
    IF Truthy(yesterday) /\ Len(pool) > 1
    THEN SelectSeq(pool, LAMBDA d : d.name # yesterday)
    ELSE pool

\* the entry of generate_weekly_menu: the locals of a fresh call
GenEnter(nl, ns) ==
    /\ no_lamb' = nl
    /\ no_spicy' = ns
    /\ dishes' = EmptyCatalog
    /\ filtered' = NoLists
    /\ used_dishes' = {}
    /\ yesterday_dishes' = NoneYet
    /\ available' = NoLists
    /\ weekly_menu' = <<>>
    /\ outcome' = "pending"
    /\ was_reset' = NoResets
    /\ since_reset' = NoNames
    /\ covered' = NoNames

\* Lines 166-187: load the catalog, filter the three lists, check feasibility
\* and set up the tracking.  A missing category key raises KeyError at the
\* subscript dishes["..."].
GenStart ==
    /\ pc = "call"
    /\ LET loaded == load_dishes(file) IN
       IF loaded.exc # None
       THEN /\ pc' = "raised"
            /\ outcome' = loaded.exc
            /\ UNCHANGED <<dishes, filtered>>
       ELSE IF ~(Categories \subseteq DOMAIN loaded.value)
       THEN /\ pc' = "raised"
            /\ outcome' = "KeyError"
            /\ dishes' = loaded.value
            /\ UNCHANGED filtered
       ELSE LET call == [c \in Categories |->
                            filter_dishes(loaded.value[c], no_lamb, no_spicy)]
                f == [c \in Categories |-> call[c].filtered]
            IN /\ dishes' = [c \in Categories |-> call[c].dishes]
               /\ filtered' = f
               /\ IF Infeasible(f)
                  THEN pc' = "returned" /\ outcome' = "none"
                  ELSE pc' = "loop" /\ outcome' = "pending"
    /\ UNCHANGED <<file, no_lamb, no_spicy, used_dishes, yesterday_dishes, available,
                   weekly_menu, was_reset, since_reset, covered, page_vars, filter_vars>>

\* Lines 189-237: one iteration of the loop over the days.  The three
\* available lists are computed first, then each empty one is refilled (its
\* names leave used_dishes), then one dish is drawn from each list;
\* random.choice raises IndexError on an empty list.
GenDay ==
    /\ pc = "loop"
    /\ Len(weekly_menu) < Len(days)
    /\ LET day == days[Len(weekly_menu) + 1]
           unused == [c \in Categories |-> Unused(filtered[c], used_dishes)]
           reset == [c \in Categories |-> unused[c] = <<>>]
           cleared == UNION {NamesOf(filtered[c]) : c \in {k \in Categories : reset[k]}}
           avail == [c \in Categories |->
                        IF reset[c] THEN ResetAvailable(filtered[c], yesterday_dishes[c])
                        ELSE unused[c]]
       IN /\ available' = avail
          /\ was_reset' = reset
          /\ covered' = since_reset
          /\ IF \E c \in Categories : avail[c] = <<>>
             THEN /\ pc' = "raised"
                  /\ outcome' = "IndexError"
                  /\ used_dishes' = used_dishes \ cleared
                  /\ UNCHANGED <<yesterday_dishes, weekly_menu, since_reset>>
             ELSE \E main_meat \in Range(avail["main_meat"]),
                     semi_meat \in Range(avail["semi_meat"]),
                     veggie \in Range(avail["veggie"]) :
                    LET chosen == [main_meat |-> main_meat.name,
                                   semi_meat |-> semi_meat.name,
                                   veggie |-> veggie.name]
                    IN /\ used_dishes' = (used_dishes \ cleared)
                                           \cup {chosen[c] : c \in Categories}
                       /\ yesterday_dishes' = chosen
                       /\ since_reset' = [c \in Categories |->
                              (IF reset[c] THEN {} ELSE since_reset[c]) \cup {chosen[c]}]
                       /\ weekly_menu' = Append(weekly_menu,
                              [day |-> day,
                               main_meat |-> chosen["main_meat"],
                               semi_meat |-> chosen["semi_meat"],
                               veggie |-> chosen["veggie"]])
                       /\ pc' = IF Len(weekly_menu) + 1 = Len(days) THEN "return" ELSE "loop"
                       /\ outcome' = outcome
    /\ UNCHANGED <<file, no_lamb, no_spicy, dishes, filtered, page_vars, filter_vars>>

\* Line 239: return weekly_menu
GenReturn ==
    /\ pc = "return"
    /\ pc' = "returned"
    /\ outcome' = "menu"
    /\ UNCHANGED <<file, no_lamb, no_spicy, dishes, filtered, used_dishes, yesterday_dishes,
                   available, weekly_menu, was_reset, since_reset, covered,
                   page_vars, filter_vars>>

-----------------------------------------------------------------------------
(* The catalogs and files the planner is run on *)

\* a document that could not be read has no content
NoJson == EmptyDict

\* lists of the first k names of the universe
PrefixPools == {[i \in 1..k |-> DishOf(NameUniverse[i])] : k \in 1..Len(NameUniverse)}

SmallNames == <<"", "A", "B">>

\* lists over the names of SmallNames (the empty list among them), each name
\* at most once
SmallPools ==
    LET picks == {s \in UNION {[1..n -> 1..Len(SmallNames)] : n \in 0..Len(SmallNames)} :
                     \A i, j \in DOMAIN s : i < j => s[i] < s[j]}
    IN {[i \in DOMAIN s |-> DishOf(SmallNames[s[i]])] : s \in picks}

\* Catalogs of at most MaxDishes dishes in all: names unique within a
\* category, shared between categories.
Catalogs ==
    {cat \in [Categories -> PrefixPools \cup SmallPools] :
        Len(cat["main_meat"]) + Len(cat["semi_meat"]) + Len(cat["veggie"]) <= MaxDishes}

\* well-formed JSON that lacks one of the three category keys
KeylessDocs == {[k \in Categories \ {c} |-> <<DishOf("C")>>] : c \in Categories}

PlanFiles ==
    {[state |-> "ok", json |-> cat] : cat \in Catalogs \cup KeylessDocs}
        \cup {[state |-> st, json |-> NoJson] : st \in FileStates \ {"ok"}}

IdlePage ==
    /\ session_state = EmptyDict
    /\ displayed = [kind |-> "nothing", menu |-> <<>>, notice |-> ""]
    /\ last_attempt = "never"
    /\ last_plan = <<>>
    /\ reruns = 0

IdleFilter ==
    /\ given = <<>>
    /\ arg = <<>>
    /\ once = <<>>
    /\ twice = <<>>

FreshCall ==
    /\ dishes = EmptyCatalog
    /\ filtered = NoLists
    /\ used_dishes = {}
    /\ yesterday_dishes = NoneYet
    /\ available = NoLists
    /\ weekly_menu = <<>>
    /\ outcome = "pending"
    /\ was_reset = NoResets
    /\ since_reset = NoNames
    /\ covered = NoNames

\* one call generate_weekly_menu(no_lamb, no_spicy) on any file
InitPlan ==
    /\ file \in PlanFiles
    /\ no_lamb \in BOOLEAN
    /\ no_spicy \in BOOLEAN
    /\ pc = "call"
    /\ FreshCall
    /\ IdlePage
    /\ IdleFilter

NextPlan == GenStart \/ GenDay \/ GenReturn

SpecPlan == InitPlan /\ [][NextPlan]_vars

-----------------------------------------------------------------------------
(* Properties of one planning call, under SpecPlan *)

Distinct(c) == Cardinality(NamesOf(filtered[c]))

\* the three filtered lists were computed and none is empty
Feasible == pc # "call" /\ \A c \in Categories : Len(filtered[c]) > 0

\* the catalog was read and holds the three category keys
PoolsComputed == pc # "call" /\ outcome \notin {"PermissionError", "UnicodeDecodeError", "KeyError"}

\* C1: in a returned plan, a category whose filtered pool has at least 5
\* distinct dishes shows no dish name twice among its 5 daily selections,
\* whatever the other two categories hold.
C1_NoRepeatWithinWeek ==
    outcome = "menu" =>
        \A c \in Categories :
            Distinct(c) >= 5 =>
                \A i, j \in 1..Len(weekly_menu) :
                    i # j => weekly_menu[i][c] # weekly_menu[j][c]

\* C2: in a returned plan, a category never shows the same dish name on two
\* consecutive days unless its filtered pool holds exactly 1 distinct dish.
C2_NoConsecutiveRepeat ==
    outcome = "menu" =>
        \A c \in Categories :
            \A i \in 1..(Len(weekly_menu) - 1) :
                weekly_menu[i][c] = weekly_menu[i + 1][c] => Distinct(c) = 1

C4_InfeasibleIffEmptyPool ==
    PoolsComputed =>
        /\ (\E c \in Categories : Len(filtered[c]) = 0) <=> outcome = "none"
        /\ outcome = "none" =>
              /\ pc = "returned"
              /\ weekly_menu = <<>>
              /\ used_dishes = {}
              /\ available = NoLists
              /\ yesterday_dishes = NoneYet

\* None returned because the flags emptied one pool while another is not empty
C4_Witness ==
    /\ outcome = "none"
    /\ file.state = "ok"
    /\ \E c \in Categories : Len(file.json[c]) > 0 /\ Len(filtered[c]) = 0
    /\ \E c \in Categories : Len(filtered[c]) > 0

\* C5: every name selected for a category, on any day, is the name of a dish
\* of that category's catalog list that is not a lamb dish when no_lamb is set
\* and not a spicy dish when no_spicy is set, a missing tag counting as false.
C5_SelectionsRespectFlags ==
    \A i \in 1..Len(weekly_menu) : \A c \in Categories :
        \E d \in Range(file.json[c]) :
            /\ d.name = weekly_menu[i][c]
            /\ no_lamb => ~Get(d, "has_lamb", FALSE)
            /\ no_spicy => ~Get(d, "has_spicy", FALSE)

\* a plan returned with no_spicy set, for a catalog with a spicy dish in a
\* category that was reset on the last day, and with a dish lacking its tags
C5_Witness ==
    /\ outcome = "menu"
    /\ no_spicy
    /\ \E c \in Categories :
          /\ was_reset[c]
          /\ \E d \in Range(file.json[c]) : Get(d, "has_spicy", FALSE)
          /\ \E d \in Range(filtered[c]) : "has_spicy" \notin DOMAIN d

\* a file that cannot be read or parsed, or a document lacking a category key
FailedSource == file.state # "ok" \/ ~(Categories \subseteq DOMAIN file.json)

\* C6: for every kind of failure to read or parse the catalog source,
\* load_dishes hands back the empty catalog and generate_weekly_menu returns
\* None instead of ending with an error.
C6_LoadFailuresAbsorbed ==
    (FailedSource /\ pc # "call") =>
        /\ dishes = EmptyCatalog
        /\ pc = "returned"
        /\ outcome = "none"

\* C8: a category is reset on a day only if every distinct dish of its
\* filtered pool was selected for that same category since its previous reset.
C8_ResetOnlyWhenExhausted ==
    \A c \in Categories :
        was_reset[c] => NamesOf(filtered[c]) \subseteq covered[c]

-----------------------------------------------------------------------------
(* filter_dishes on its own, applied twice with the same flags *)

TagSets ==
    {[k \in {} |-> TRUE],
     [has_lamb |-> TRUE],
     [has_lamb |-> FALSE, has_spicy |-> TRUE],
     [has_lamb |-> TRUE, has_spicy |-> TRUE],
     [has_lamb |-> FALSE, has_spicy |-> FALSE]}

\* dish records with any of the tag sets; a list may hold a record twice
FilterDishes == {("name" :> n) @@ t : n \in {"A", "B"}, t \in TagSets}

InitFilter ==
    /\ given \in UNION {[1..n -> FilterDishes] : n \in 0..MaxLen}
    /\ arg = given
    /\ once = <<>>
    /\ twice = <<>>
    /\ no_lamb \in BOOLEAN
    /\ no_spicy \in BOOLEAN
    /\ pc = "filter"
    /\ file = [state |-> "missing", json |-> NoJson]
    /\ FreshCall
    /\ IdlePage

\* filtered = filter_dishes(arg, no_lamb, no_spicy)
FilterOnce ==
    /\ pc = "filter"
    /\ LET call == filter_dishes(arg, no_lamb, no_spicy)
       IN arg' = call.dishes /\ once' = call.filtered
    /\ pc' = "filtered"
    /\ UNCHANGED <<file, gen_vars, page_vars, given, twice>>

\* filter_dishes(filtered, no_lamb, no_spicy), the same flags again
FilterTwice ==
    /\ pc = "filtered"
    /\ twice' = filter_dishes(once, no_lamb, no_spicy).filtered
    /\ pc' = "refiltered"
    /\ UNCHANGED <<file, gen_vars, page_vars, given, arg, once>>

NextFilter == FilterOnce \/ FilterTwice

SpecFilter == InitFilter /\ [][NextFilter]_vars

\* C7: filtering a filtered list again with the same flags returns the same
\* sequence, and the list passed to filter_dishes is as it was before the call.
C7_FilterIdempotent ==
    /\ pc \in {"filtered", "refiltered"} => arg = given
    /\ pc = "refiltered" => twice = once

\* both flags set, dishes were dropped and at least two were kept
C7_Witness ==
    /\ pc = "refiltered"
    /\ no_lamb /\ no_spicy
    /\ Len(once) >= 2
    /\ Len(once) < Len(given)

-----------------------------------------------------------------------------
(* main: the page script, rerun on every interaction of the session *)

\* the catalog of the session: no_spicy empties semi_meat, main_meat has two dishes
PageCatalog ==
    [main_meat |-> <<DishOf("C"), DishOf("D")>>,
     semi_meat |-> <<DishOf("B")>>,
     veggie |-> <<DishOf("")>>]

\* dishes.json as it may be found at a call: the catalog, the catalog with
\* the veggie key gone, no file, a file that may not be read
PageFiles ==
    {[state |-> "ok", json |-> PageCatalog],
     [state |-> "ok", json |-> [c \in Categories \ {"veggie"} |-> PageCatalog[c]]],
     [state |-> "missing", json |-> NoJson],
     [state |-> "unreadable", json |-> NoJson]}

\* Lines 307-347: the menu cards when session_state says a menu was generated,
\* the welcome text otherwise; notice is the message shown above them
Display(ss, notice) ==
    IF Get(ss, "menu_generated", FALSE)
    THEN [kind |-> "menu", menu |-> Get(ss, "weekly_menu", <<>>), notice |-> notice]
    ELSE [kind |-> "welcome", menu |-> <<>>, notice |-> notice]

InitPage ==
    /\ file \in PageFiles
    /\ no_lamb = FALSE
    /\ no_spicy = FALSE
    /\ pc = "idle"
    /\ FreshCall
    /\ IdlePage
    /\ IdleFilter

\* a rerun in which st.button returns False (a checkbox was toggled, the page
\* was opened): nothing is generated, the stored state is displayed
PageRerun ==
    /\ pc = "idle"
    /\ reruns < MaxReruns
    /\ displayed' = Display(session_state, "")
    /\ reruns' = reruns + 1
    /\ UNCHANGED <<file, pc, gen_vars, session_state, last_attempt, last_plan, filter_vars>>

\* a rerun in which st.button returns True: generate_weekly_menu is called
\* with the two checkbox values
PageGenerate ==
    /\ pc = "idle"
    /\ reruns < MaxReruns
    /\ \E nl \in BOOLEAN, ns \in BOOLEAN : GenEnter(nl, ns)
    /\ pc' = "call"
    /\ UNCHANGED <<file, page_vars, filter_vars>>

\* Lines 288-347: generate_weekly_menu returned; session_state is updated and
\* the rest of the script displays it.  The locals of the call are gone.
PageStore ==
    /\ pc = "returned"
    /\ LET ss == IF outcome = "none"
                 THEN Put(Put(session_state, "menu_generated", FALSE),
                          "error_message", TRUE)
                 ELSE Put(Put(Put(session_state, "weekly_menu", weekly_menu),
                              "menu_generated", TRUE),
                          "error_message", FALSE)
       IN /\ session_state' = ss
          /\ displayed' = Display(ss, IF outcome = "none" THEN "filters too strict" ELSE "")
    /\ last_attempt' = outcome
    /\ last_plan' = IF outcome = "menu" THEN weekly_menu ELSE last_plan
    /\ reruns' = reruns + 1
    /\ pc' = "idle"
    /\ GenEnter(no_lamb, no_spicy)
    /\ UNCHANGED <<file, filter_vars>>

\* generate_weekly_menu raised: nothing catches the exception, the script run
\* ends there and session_state is not touched
PageError ==
    /\ pc = "raised"
    /\ displayed' = [kind |-> "exception", menu |-> <<>>, notice |-> outcome]
    /\ last_attempt' = "raised"
    /\ reruns' = reruns + 1
    /\ pc' = "idle"
    /\ GenEnter(no_lamb, no_spicy)
    /\ UNCHANGED <<file, session_state, last_plan, filter_vars>>

\* dishes.json is opened anew by every call of load_dishes; between two
\* reruns it may have been replaced, removed or made unreadable
FileReplaced ==
    /\ pc = "idle"
    /\ file' \in PageFiles \ {file}
    /\ UNCHANGED <<pc, gen_vars, page_vars, filter_vars>>

NextPage ==
    \/ PageRerun
    \/ PageGenerate
    \/ GenStart
    \/ GenDay
    \/ GenReturn
    \/ PageStore
    \/ PageError
    \/ FileReplaced

SpecPage == InitPage /\ [][NextPage]_vars

\* C10: after any rerun, a menu is displayed if and only if some generation
\* attempt was made and the most recent one succeeded, and the menu displayed
\* is the plan of that attempt.
C10_MenuShownIffLastAttemptSucceeded ==
    (pc = "idle" /\ reruns > 0) =>
        /\ displayed.kind = "menu" <=> last_attempt = "menu"
        /\ displayed.kind = "menu" => displayed.menu = last_plan

====
